---- MODULE Spec2Model ----
(***************************************************************************)
(* Model of src/bin/calc_sim.py: cosine_similarity(v1, v2) and main(), the *)
(* brute-force top-k retrieval over a JSON memory file.                    *)
(*                                                                         *)
(* JSON values are modelled by their shape.  Numbers are small integers;   *)
(* a score dot/(|v1|*|v2|) is kept exactly as the triple <<sgn, num, den>> *)
(* with score = sgn * sqrt(num/den) in lowest terms, so that two scores    *)
(* are equal as numbers iff their triples are equal.                       *)
(***************************************************************************)
EXTENDS Integers, Sequences, FiniteSets, TLC

\* Bounds of the model.
MaxN == 2      \* longest candidate list drawn for the memory file
MaxK == 2      \* top_k ranges over -MaxK .. MaxK
MaxDim == 2    \* longest vector drawn for a direct call of cosine_similarity
MaxVal == 1    \* components of those vectors range over -MaxVal .. MaxVal

\* pc: the statement main() is at; argv: the command line; query_vector,
\* top_k, memories, results: the locals of main(); exc: the exception bound by
\* the handler; stdout: what has been printed; call: one direct call of
\* cosine_similarity.  scored and excAt are history: the positions passed to
\* cosine_similarity, and the loop position whose body raised.
VARIABLES pc, argv, query_vector, top_k, memories, results, scored, exc, excAt,
          stdout, call

vars == <<pc, argv, query_vector, top_k, memories, results, scored, exc, excAt,
          stdout, call>>

Min(a, b) == IF a <= b THEN a ELSE b
Max(a, b) == IF a >= b THEN a ELSE b
Abs(a) == IF a < 0 THEN -a ELSE a

RECURSIVE GCD(_, _)
GCD(a, b) == IF b = 0 THEN a ELSE GCD(b, a % b)

RECURSIVE SumSeq(_)
SumSeq(s) == IF s = <<>> THEN 0 ELSE Head(s) + SumSeq(Tail(s))

RECURSIVE SeqsUpTo(_, _)
SeqsUpTo(S, n) ==
  IF n = 0 THEN {<<>>}
  ELSE LET shorter == SeqsUpTo(S, n - 1)
       IN  shorter \cup {Append(s, x) : s \in {t \in shorter : Len(t) = n - 1}, x \in S}

(***************************************************************************)
(* Values.                                                                 *)
(***************************************************************************)
None == "none"

\* A parsed query: shape "list" is a JSON array whose elements v[i] are
\* numbers except at the positions in bad, which hold strings; shape "str"
\* is a JSON string (iterating it yields Len(v) one-character strings, all
\* positions bad); shape "num" is a JSON number, which is not iterable.
Vec(v) == [shape |-> "list", v |-> v, bad |-> {}]
NumQuery == [shape |-> "num", v |-> <<>>, bad |-> {}]
StrQuery(n) == [shape |-> "str", v |-> [i \in 1..n |-> 0], bad |-> 1..n]
BadList(v, bad) == [shape |-> "list", v |-> v, bad |-> bad]

IsVector(q) == q.shape = "list" /\ q.bad = {}

\* A float result, exact: sgn * sqrt(num/den).
ScoreOf(dot, sq) ==
  IF dot = 0 THEN [sgn |-> 0, num |-> 0, den |-> 1]
  ELSE LET n == dot * dot
           g == GCD(n, sq)
       IN  [sgn |-> IF dot > 0 THEN 1 ELSE -1, num |-> n \div g, den |-> sq \div g]

Zero == ScoreOf(0, 1)    \* the literal 0.0
NoScore == [sgn |-> 0, num |-> 0, den |-> 0]

\* a >= b on scores
ScoreGeq(a, b) ==
  IF a.sgn # b.sgn THEN a.sgn > b.sgn
  ELSE IF a.sgn = 1 THEN a.num * b.den >= b.num * a.den
  ELSE IF a.sgn = -1 THEN a.num * b.den <= b.num * a.den
  ELSE TRUE

(***************************************************************************)
(* cosine_similarity                                                       *)
(***************************************************************************)
\* zip(v1, v2) padding the shorter vector with 1 (a zip_longest)
RECURSIVE ZipPadded(_, _)
ZipPadded(a, b) ==
  IF a = <<>> /\ b = <<>> THEN <<>>
  ELSE <<<<IF a = <<>> THEN 1 ELSE Head(a), IF b = <<>> THEN 1 ELSE Head(b)>>>>
       \o ZipPadded(IF a = <<>> THEN a ELSE Tail(a), IF b = <<>> THEN b ELSE Tail(b))

\* zip(v1, v2): pairs until either argument is exhausted
RECURSIVE Zip(_, _)
Zip(a, b) ==
  IF a = <<>> \/ b = <<>> THEN <<>>
  ELSE <<<<Head(a), Head(b)>>>> \o Zip(Tail(a), Tail(b))

Products(pairs) == [i \in 1..Len(pairs) |-> pairs[i][1] * pairs[i][2]]

\* "not magnitude1 and not magnitude2"
EitherZeroBoth(sq1, sq2) == sq1 = 0 /\ sq2 = 0

\* "not magnitude1 or not magnitude2": sqrt(x) is 0.0 exactly when x is 0
EitherZero(sq1, sq2) == sq1 = 0 \/ sq2 = 0

\* The call cosine_similarity(v1, v2) with v1 a parsed query and v2 a list
\* of numbers.  raised is the exception that leaves the call, or None;
\* dot, sq1 and sq2 are the locals dot_product, magnitude1^2, magnitude2^2.
cosine_similarity(v1, v2) ==
  LET pairs == Zip(v1.v, v2)
      dot == SumSeq(Products(pairs))
      sq1 == SumSeq([i \in 1..Len(v1.v) |-> v1.v[i] * v1.v[i]])
      sq2 == SumSeq([i \in 1..Len(v2) |-> v2[i] * v2[i]])
      Fail(e) == [raised |-> e, dot |-> 0, sq1 |-> 0, sq2 |-> 0, ret |-> NoScore]
  IN  IF v1.shape = "num" THEN Fail("TypeError")                     \* zip(5, v2)
      ELSE IF \E i \in 1..Len(pairs) : i \in v1.bad THEN Fail("TypeError")  \* 0 + "a"*b
      ELSE IF v1.bad # {} THEN Fail("TypeError")                     \* "a" * "a"
      ELSE IF EitherZero(sq1, sq2)
           THEN [raised |-> None, dot |-> dot, sq1 |-> sq1, sq2 |-> sq2, ret |-> Zero]
      ELSE IF sq1 * sq2 = 0
           THEN [raised |-> "ZeroDivisionError", dot |-> dot, sq1 |-> sq1, sq2 |-> sq2,
                 ret |-> NoScore]
      ELSE [raised |-> None, dot |-> dot, sq1 |-> sq1, sq2 |-> sq2,
            ret |-> ScoreOf(dot, sq1 * sq2)]

NoResult == [raised |-> None, dot |-> 0, sq1 |-> 0, sq2 |-> 0, ret |-> NoScore]
NoCall == [v1 |-> <<>>, v2 |-> <<>>, res |-> NoResult]

(***************************************************************************)
(* Specification SpecScore: one direct call of cosine_similarity on every  *)
(* pair of vectors within the bounds.                                      *)
(***************************************************************************)
Vectors == SeqsUpTo((-MaxVal)..MaxVal, MaxDim)

NoArgv == [argc |-> 0, query |-> [ok |-> FALSE, val |-> NumQuery],
           topk |-> [ok |-> FALSE, val |-> 0]]
NoDoc == [top |-> "list", items |-> <<>>]

InitScore ==
  /\ pc = "call"
  /\ \E a \in Vectors, b \in Vectors : call = [v1 |-> a, v2 |-> b, res |-> NoResult]
  /\ argv = NoArgv
  /\ query_vector = NumQuery
  /\ top_k = 0
  /\ memories = NoDoc
  /\ results = <<>>
  /\ scored = {}
  /\ exc = None
  /\ excAt = 0
  /\ stdout = <<>>

CallCosine ==
  /\ pc = "call"
  /\ call' = [call EXCEPT !.res = cosine_similarity(Vec(call.v1), call.v2)]
  /\ pc' = "returned"
  /\ UNCHANGED <<argv, query_vector, top_k, memories, results, scored, exc, excAt, stdout>>

NextScore == CallCosine

SpecScore == InitScore /\ [][NextScore]_vars

(***************************************************************************)
(* main(): the candidate file and its elements.                            *)
(***************************************************************************)
FieldKeys == {"content", "id", "metadata"}

\* One element met while iterating the loaded document.  kind "obj" is a
\* JSON object with the member names in keys (embedding is <<>> when the
\* member is absent or is the empty array); kind "str" is a string, sub
\* telling whether it contains the text "embedding"; kind "num" is a number.
Obj(keys, emb) ==
  [kind |-> "obj", keys |-> keys, embedding |-> emb, sub |-> FALSE,
   content |-> "text", id |-> "id7", metadata |-> "meta"]
StrElem(sub) ==
  [kind |-> "str", keys |-> {}, embedding |-> <<>>, sub |-> sub,
   content |-> "", id |-> "", metadata |-> ""]
NumElem ==
  [kind |-> "num", keys |-> {}, embedding |-> <<>>, sub |-> FALSE,
   content |-> "", id |-> "", metadata |-> ""]

Embeddings == {<<1, 0>>, <<0, 1>>, <<1, 1>>, <<-1>>}

\* Candidate elements drawn for a document: records without an embedding or
\* with an empty one (with and without content), every embedding with all
\* members present, one embedding with every combination of the other
\* members absent, and two elements that are not objects.
ElemPool ==
  {Obj(FieldKeys, <<>>), Obj({"id", "metadata"}, <<>>),
   Obj(FieldKeys \cup {"embedding"}, <<>>), Obj({"embedding", "id", "metadata"}, <<>>)}
  \cup {Obj(FieldKeys \cup {"embedding"}, e) : e \in Embeddings}
  \cup {Obj(ks \cup {"embedding"}, <<1, 0>>) : ks \in SUBSET FieldKeys}
  \cup {NumElem, StrElem(FALSE)}

\* A parsed document: top is the JSON type of the top-level value.  For an
\* object, items are its member names; for a string, its characters.
ListDoc(items) == [top |-> "list", items |-> items]
Docs ==
  {ListDoc(s) : s \in SeqsUpTo(ElemPool, MaxN)}
  \cup {[top |-> "obj", items |-> s] : s \in {<<>>, <<StrElem(FALSE)>>, <<StrElem(TRUE)>>}}
  \cup {[top |-> "str", items |-> s] : s \in {<<>>, <<StrElem(FALSE)>>}}
  \cup {[top |-> "num", items |-> <<>>]}

\* What open() and json.load() find at the path argv[2].
Files ==
  {[state |-> "missing", doc |-> NoDoc], [state |-> "badjson", doc |-> NoDoc]}
  \cup {[state |-> "ok", doc |-> d] : d \in Docs}

QueryPool ==
  {Vec(<<1, 0>>), Vec(<<1, 1>>), Vec(<<0>>),
   NumQuery, StrQuery(0), BadList(<<0>>, {1}), BadList(<<1, 0>>, {2})}

\* argv[1] and argv[3] as text: ok says whether json.loads / int accepts it.
QueryArgs ==
  {[ok |-> FALSE, val |-> NumQuery]} \cup {[ok |-> TRUE, val |-> q] : q \in QueryPool}
TopkArgs ==
  {[ok |-> FALSE, val |-> 0]} \cup {[ok |-> TRUE, val |-> k] : k \in (-MaxK)..MaxK}

\* "except Exception" catching only ValueError
CaughtValueErrorOnly(e) == e \in {"ValueError", "JSONDecodeError"}

\* "except Exception as e": every exception raised here derives from Exception
Caught(e) ==
  e \in {"IndexError", "JSONDecodeError", "ValueError", "FileNotFoundError",
         "TypeError", "KeyError", "ZeroDivisionError"}

\* "'embedding' in mem" alone
HasEmbeddingKeyOnly(mem) == "embedding" \in mem.keys

\* the negation of "'embedding' not in mem or not mem['embedding']"
HasEmbedding(mem) == "embedding" \in mem.keys /\ mem.embedding # <<>>

\* mem.get(key) with no default given
DictGetNone(mem, key, default) == IF key \in mem.keys THEN mem[key] ELSE "None"

\* mem.get(key, default)
DictGet(mem, key, default) == IF key \in mem.keys THEN mem[key] ELSE default

\* iteration that treats a non-iterable document as empty
IterItemsLenient(doc) == [raised |-> None, items |-> doc.items]

\* "for mem in memories"
IterItems(doc) ==
  IF doc.top = "num" THEN [raised |-> "TypeError", items |-> <<>>]
  ELSE [raised |-> None, items |-> doc.items]

\* One pass of the loop body on the element mem at position i.  acc holds
\* results, the positions passed to cosine_similarity, and the exception
\* that ended the loop with the position that raised it.  pos in a result
\* records the position the result was built from.
LoopBody(q, mem, i, acc) ==
  LET raise(e, sc) == [acc EXCEPT !.exc = e, !.excAt = i, !.scored = sc]
  IN  IF mem.kind = "num" THEN raise("TypeError", acc.scored)
      ELSE IF mem.kind = "str"
           THEN IF mem.sub THEN raise("TypeError", acc.scored) ELSE acc
      ELSE IF ~HasEmbedding(mem) THEN acc
      ELSE LET r == cosine_similarity(q, mem.embedding)
               sc == acc.scored \cup {i}
           IN  IF r.raised # None THEN raise(r.raised, sc)
               ELSE IF "content" \notin mem.keys THEN raise("KeyError", sc)
               ELSE [acc EXCEPT
                       !.scored = sc,
                       !.results = Append(@, [content |-> mem.content,
                                              score |-> r.ret,
                                              metadata |-> DictGet(mem, "metadata", "{}"),
                                              id |-> DictGet(mem, "id", "unknown"),
                                              pos |-> i])]

RECURSIVE ForEachMem(_, _, _, _)
ForEachMem(q, items, i, acc) ==
  IF i > Len(items) \/ acc.exc # None THEN acc
  ELSE ForEachMem(q, items, i + 1, LoopBody(q, items[i], i, acc))

\* Placement for an ascending sort (reverse=True forgotten)
InsertAsc(sorted, r) ==
  LET n == Cardinality({j \in 1..Len(sorted) : ScoreGeq(r.score, sorted[j].score)})
  IN  SubSeq(sorted, 1, n) \o <<r>> \o SubSeq(sorted, n + 1, Len(sorted))

\* Placement of sorted(...)[::-1]: descending, ties in reverse input order
InsertDescFirst(sorted, r) ==
  LET n == Cardinality({j \in 1..Len(sorted) : ~ScoreGeq(r.score, sorted[j].score)})
  IN  SubSeq(sorted, 1, n) \o <<r>> \o SubSeq(sorted, n + 1, Len(sorted))

\* Stable descending placement: r goes behind every element whose score is
\* >= its own
InsertDesc(sorted, r) ==
  LET n == Cardinality({j \in 1..Len(sorted) : ScoreGeq(sorted[j].score, r.score)})
  IN  SubSeq(sorted, 1, n) \o <<r>> \o SubSeq(sorted, n + 1, Len(sorted))

RECURSIVE SortInto(_, _)
SortInto(rs, sorted) ==
  IF rs = <<>> THEN sorted ELSE SortInto(Tail(rs), InsertDesc(sorted, Head(rs)))

\* results.sort(key=lambda x: x['score'], reverse=True)
SortDesc(rs) == SortInto(rs, <<>>)

\* s[:k + 1]
SliceToNext(s, k) ==
  LET n == Len(s) IN SubSeq(s, 1, IF k + 1 < 0 THEN Max(n + k + 1, 0) ELSE Min(k + 1, n))

\* s[:k] with k clamped at 0
SliceToClamped(s, k) == SubSeq(s, 1, Min(Max(k, 0), Len(s)))

\* s[:k]
SliceTo(s, k) ==
  LET n == Len(s) IN SubSeq(s, 1, IF k < 0 THEN Max(n + k, 0) ELSE Min(k, n))

Printed(items) == [error |-> FALSE, items |-> items, msg |-> ""]
PrintedError(e) == [error |-> TRUE, items |-> <<>>, msg |-> e]

Init ==
  /\ pc = "start"
  /\ argv \in [argc : 0..3, query : QueryArgs, topk : TopkArgs]
  /\ query_vector = NumQuery
  /\ top_k = 0
  /\ memories = NoDoc
  /\ results = <<>>
  /\ scored = {}
  /\ exc = None
  /\ excAt = 0
  /\ stdout = <<>>
  /\ call = NoCall

\* An exception e leaves a statement of the try block.
Raise(e) ==
  /\ exc' = e
  /\ pc' = IF Caught(e) THEN "except" ELSE "crashed"

\* query_vector = json.loads(sys.argv[1]); memory_file = sys.argv[2];
\* top_k = int(sys.argv[3])
ParseArgs ==
  /\ pc = "start"
  /\ IF argv.argc < 1 THEN Raise("IndexError") /\ UNCHANGED <<query_vector, top_k>>
     ELSE IF ~argv.query.ok THEN Raise("JSONDecodeError") /\ UNCHANGED <<query_vector, top_k>>
     ELSE IF argv.argc < 3
          THEN /\ Raise("IndexError")
               /\ query_vector' = argv.query.val
               /\ UNCHANGED top_k
     ELSE IF ~argv.topk.ok
          THEN /\ Raise("ValueError")
               /\ query_vector' = argv.query.val
               /\ UNCHANGED top_k
     ELSE /\ query_vector' = argv.query.val
          /\ top_k' = argv.topk.val
          /\ pc' = "parsed"
          /\ UNCHANGED exc
  /\ UNCHANGED <<argv, memories, results, scored, excAt, stdout, call>>

\* with open(memory_file) as f: memories = json.load(f)
LoadMemories ==
  /\ pc = "parsed"
  /\ \E f \in Files :
       IF f.state = "missing" THEN Raise("FileNotFoundError") /\ UNCHANGED memories
       ELSE IF f.state = "badjson" THEN Raise("JSONDecodeError") /\ UNCHANGED memories
       ELSE memories' = f.doc /\ pc' = "loaded" /\ UNCHANGED exc
  /\ UNCHANGED <<argv, query_vector, top_k, results, scored, excAt, stdout, call>>

\* results = []; for mem in memories: ...
ScoreAll ==
  /\ pc = "loaded"
  /\ LET it == IterItems(memories)
         acc == ForEachMem(query_vector, it.items, 1,
                           [results |-> <<>>, scored |-> {}, exc |-> None, excAt |-> 0])
     IN  IF it.raised # None
         THEN Raise(it.raised) /\ UNCHANGED <<results, scored, excAt>>
         ELSE /\ results' = acc.results
              /\ scored' = acc.scored
              /\ excAt' = acc.excAt
              /\ IF acc.exc # None THEN Raise(acc.exc)
                 ELSE pc' = "scored" /\ UNCHANGED exc
  /\ UNCHANGED <<argv, query_vector, top_k, memories, stdout, call>>

\* results.sort(...); print(json.dumps(results[:top_k]))
SortAndPrint ==
  /\ pc = "scored"
  /\ results' = SortDesc(results)
  /\ stdout' = Append(stdout, Printed(SliceTo(results', top_k)))
  /\ pc' = "done"
  /\ UNCHANGED <<argv, query_vector, top_k, memories, scored, exc, excAt, call>>

\* except Exception as e: print(json.dumps([{"error": str(e)}]))
PrintError ==
  /\ pc = "except"
  /\ stdout' = Append(stdout, PrintedError(exc))
  /\ pc' = "done"
  /\ UNCHANGED <<argv, query_vector, top_k, memories, results, scored, exc, excAt, call>>

Next == ParseArgs \/ LoadMemories \/ ScoreAll \/ SortAndPrint \/ PrintError

Spec == Init /\ [][Next]_vars

(***************************************************************************)
(* Properties.                                                             *)
(***************************************************************************)
Done == pc = "done"
Out == stdout[1]
Normal == Done /\ ~Out.error
Failed == Done /\ Out.error

\* a >= b on scores, by the signed squares sgn * num / den
AtLeast(a, b) == a.sgn * a.num * b.den >= b.sgn * b.num * a.den

\* Positions of the loaded document holding a record with a non-empty embedding
EmbeddedPositions ==
  {i \in 1..Len(memories.items) :
     /\ memories.items[i].kind = "obj"
     /\ "embedding" \in memories.items[i].keys
     /\ Len(memories.items[i].embedding) > 0}

\* The loop over the loaded document was entered (no failure in the
\* arguments or in reading the file).
ReachedLoop ==
  Done /\ exc \notin {"IndexError", "JSONDecodeError", "ValueError", "FileNotFoundError"}

RecordList ==
  memories.top = "list" /\ \A i \in 1..Len(memories.items) : memories.items[i].kind = "obj"

\* Query and candidate document have the shapes of the data model.
StructValid == ReachedLoop /\ IsVector(query_vector) /\ RecordList

\* ... and every record with an embedding carries content.
WellFormed ==
  StructValid /\ \A i \in EmbeddedPositions : "content" \in memories.items[i].keys

\* C1: in every normal result the scores are non-increasing by position.
OrderingInv ==
  Normal => \A i, j \in 1..Len(Out.items) :
              i < j => AtLeast(Out.items[i].score, Out.items[j].score)

OrderingWitness ==
  /\ Normal
  /\ Len(Out.items) >= 2
  /\ Out.items[1].score # Out.items[2].score
  /\ Out.items[1].pos > Out.items[2].pos

\* C2: two returned records with equal scores keep their input order.
StabilityInv ==
  Normal => \A i, j \in 1..Len(Out.items) :
              (i < j /\ Out.items[i].score = Out.items[j].score)
                => Out.items[i].pos < Out.items[j].pos

StabilityWitness ==
  /\ Normal
  /\ \E i, j \in 1..Len(Out.items) :
       /\ i < j
       /\ Out.items[i].score = Out.items[j].score
       /\ memories.items[Out.items[i].pos].embedding
            # memories.items[Out.items[j].pos].embedding

\* C3: a record whose embedding is missing or empty is never returned, never
\* passed to cosine_similarity, and never the element that raises.
ExclusionInv ==
  /\ \A n \in 1..Len(stdout) : \A k \in 1..Len(stdout[n].items) :
       stdout[n].items[k].pos \in EmbeddedPositions
  /\ scored \subseteq EmbeddedPositions
  /\ (exc # None /\ excAt # 0) =>
       ~(memories.items[excAt].kind = "obj" /\ excAt \notin EmbeddedPositions)

ExclusionWitness ==
  /\ Normal
  /\ Len(Out.items) >= 1
  /\ \E i \in 1..Len(memories.items) :
       /\ memories.items[i].kind = "obj"
       /\ i \notin EmbeddedPositions
       /\ "content" \notin memories.items[i].keys

\* C4: for top_k >= 0 a normal result has min(top_k, number of records with
\* a non-empty embedding) elements, and inputs of the data model always give
\* a normal result.
BoundingInv ==
  (Done /\ top_k >= 0) =>
     /\ WellFormed => ~Out.error
     /\ ~Out.error => Len(Out.items) = Min(top_k, Cardinality(EmbeddedPositions))

BoundingWitness ==
  /\ Normal
  /\ Cardinality(EmbeddedPositions) >= 1
  /\ top_k > Cardinality(EmbeddedPositions)
  /\ Len(Out.items) = Cardinality(EmbeddedPositions)

\* C5: nothing is printed before the end, every state short of the end is at
\* a statement of the try block or in its handler (each of which has a next
\* step), the run ends with exactly one printed value, which is the error marker alone exactly when an
\* exception was raised, and no exception leaves main().
SingleOutputInv ==
  /\ pc \in {"start", "parsed", "loaded", "scored", "except", "done"}
  /\ (pc # "done") => stdout = <<>>
  /\ Done => /\ Len(stdout) = 1
             /\ Out.error <=> exc # None
             /\ Out.error => Out.items = <<>>

SingleOutputWitness ==
  /\ Failed
  /\ excAt > 1
  /\ results # <<>>

\* C6 as stated: with query and document of valid structure, a record lacking
\* id, content or metadata never turns the result into the error output.
MissingFieldNeverFails == (Done /\ StructValid) => ~Out.error

\* C6 amended: a missing id or metadata is defaulted and the result is
\* normal; the result is the error output exactly when a record with a
\* non-empty embedding lacks content.
MissingFieldInv ==
  (Done /\ StructValid) =>
     /\ Out.error <=> (\E i \in EmbeddedPositions : "content" \notin memories.items[i].keys)
     /\ \A k \in 1..Len(Out.items) :
          LET r == Out.items[k]
              mem == memories.items[r.pos]
          IN  /\ r.id = IF "id" \in mem.keys THEN mem.id ELSE "unknown"
              /\ r.metadata = IF "metadata" \in mem.keys THEN mem.metadata ELSE "{}"
              /\ r.content = mem.content

MissingFieldWitness ==
  /\ Normal
  /\ StructValid
  /\ \E k \in 1..Len(Out.items) :
       /\ Out.items[k].id = "unknown"
       /\ Out.items[k].metadata = "{}"
       /\ memories.items[Out.items[k].pos].keys = {"embedding", "content"}

\* C7 as stated: a query that is not a sequence of numbers, or a document
\* that is not a sequence of record objects, always gives the error output.
MalformedAlwaysFails ==
  (ReachedLoop /\ (~IsVector(query_vector) \/ ~RecordList)) => Out.error

\* C7 amended: a document that is not iterable always gives the error output;
\* over a sequence of records, a query that is not iterable or holds a
\* non-numeric element gives the error output exactly when some record has a
\* non-empty embedding; a top-level object or string gives the error output
\* exactly when a member name or character contains the text "embedding".
MalformedInv ==
  ReachedLoop =>
     /\ memories.top = "num" => Out.error
     /\ (RecordList /\ (query_vector.shape = "num" \/ query_vector.bad # {}))
          => (Out.error <=> EmbeddedPositions # {})
     /\ memories.top \in {"obj", "str"}
          => (Out.error <=> \E i \in 1..Len(memories.items) : memories.items[i].sub)

MalformedWitness ==
  /\ Normal
  /\ ReachedLoop
  /\ query_vector.shape = "num"
  /\ RecordList
  /\ Len(memories.items) >= 1
  /\ EmbeddedPositions = {}

\* C10: for a negative top_k a normal result is the sorted results without
\* their last |top_k| elements, and inputs of the data model give a normal
\* result.
NegativeTopKInv ==
  (Done /\ top_k < 0) =>
     /\ WellFormed => ~Out.error
     /\ ~Out.error =>
          /\ Len(Out.items) = Max(Len(results) - Abs(top_k), 0)
          /\ \A i \in 1..Len(Out.items) : Out.items[i] = results[i]

NegativeTopKWitness ==
  /\ Normal
  /\ top_k < 0
  /\ Len(Out.items) >= 1
  /\ Len(results) = Len(Out.items) + Abs(top_k)

AllZero(v) == \A i \in 1..Len(v) : v[i] = 0

\* C8: when either vector has magnitude zero (all components zero, or no
\* components), cosine_similarity returns 0.0 and raises nothing.
ZeroVectorInv ==
  (pc = "returned" /\ (AllZero(call.v1) \/ AllZero(call.v2)))
     => (call.res.raised = None /\ call.res.ret = Zero)

ZeroVectorWitness ==
  /\ pc = "returned"
  /\ call.v2 # <<>>
  /\ AllZero(call.v2)
  /\ ~AllZero(call.v1)
  /\ call.res.ret = Zero

RECURSIVE DotUpTo(_, _, _)
DotUpTo(a, b, n) == IF n = 0 THEN 0 ELSE a[n] * b[n] + DotUpTo(a, b, n - 1)

\* C9: for vectors of any two lengths nothing is raised and the dot product
\* is the sum of the products at the first min(len(v1), len(v2)) positions.
PairwiseInv ==
  pc = "returned" =>
     /\ call.res.raised = None
     /\ call.res.dot = DotUpTo(call.v1, call.v2, Min(Len(call.v1), Len(call.v2)))

PairwiseWitness ==
  /\ pc = "returned"
  /\ Len(call.v1) > Len(call.v2)
  /\ Len(call.v2) >= 1
  /\ call.v1[Len(call.v1)] # 0
  /\ call.res.dot # 0

====
